---- MODULE Spec2Model ----
(***************************************************************************)
(* Request observability pipeline of src/api/main.py: metrics_middleware   *)
(* wraps every inbound request, keeps the in-flight gauge, opens a span,   *)
(* awaits the downstream handler and records metrics and structured logs.  *)
(*                                                                         *)
(* Every request is an asyncio task on one event loop: the only suspension *)
(* point of metrics_middleware is `await call_next(request)` (line 140).   *)
(* Between two suspension points a task runs alone, so the model has one   *)
(* action for the code before the await and one per way the await ends;    *)
(* `ops` keeps, per request, the order of what the action did.             *)
(***************************************************************************)
EXTENDS Bags, FiniteSets, Integers, Sequences, TLC

\* ---------------------------------------------------------------- bounds
NumRequests == 2      \* concurrent requests
MaxFaults == 1        \* sink operations (metrics, log, tracer) that raise in one run

Requests == 1..NumRequests

\* ---------------------------------------------------------------- inputs
\* the inbound requests: a method and a raw path, the sequence of its segments
Inbound == {[method |-> "GET", path |-> <<"records", "1">>],
            [method |-> "POST", path |-> <<"nope">>]}
Statuses == {200, 404, 500}
HandlerExceptions == {[type |-> "ValueError", msg |-> "boom"],
                      [type |-> "KeyError", msg |-> "id"]}
\* what a failing metrics / log / tracer call raises
SinkError == [type |-> "SinkError", msg |-> "sink down"]
\* asyncio.CancelledError: a BaseException, not an Exception
CancelledError == [type |-> "CancelledError", msg |-> ""]

NoException == [type |-> "", msg |-> ""]
None == <<>>

\* ------------------------------------------------- api.telemetry helpers
IdSegments == {"1", "2"}
KnownRoutes == {<<"records">>, <<"records", "{id}">>, <<"health">>, <<"metrics">>}
CatchAll == <<"unknown">>

CollapseSegment(seg) == IF seg \in IdSegments THEN "{id}" ELSE seg

normalize_route(path) ==
    LET template == [i \in DOMAIN path |-> CollapseSegment(path[i])]
    IN  IF template \in KnownRoutes THEN template ELSE CatchAll

get_error_class(status_code) ==
    IF status_code < 100 \/ status_code > 599 THEN "invalid"
    ELSE IF status_code >= 500 THEN "5xx"
    ELSE IF status_code >= 400 THEN "4xx"
    ELSE "unknown"

\* mutant: the raw path is used as the route label
RouteOfRawPath(request) == request.path

\* line 121: route = normalize_route(request.url.path)
RouteOf(request) == normalize_route(request.path)

\* ------------------------------------------------------------------ state
VARIABLES
    tracing,                        \* setup_telemetry installed a recording tracer
    pc,                             \* position of each request in metrics_middleware
    req,                            \* method and raw path of each request
    route,                          \* local `route`
    handler,                        \* what the downstream handler did
    result,                         \* what the caller of metrics_middleware receives
    span,                           \* the request's span
    active_connections,             \* in-flight gauge
    http_requests_total,            \* counter, series (method, route, status_code)
    http_request_duration_seconds,  \* histogram, observations per (method, route)
    http_errors_total,              \* counter, series (method, route, error_code)
    application_errors_total,       \* counter, series (error_type, component)
    log,                            \* records written to the log sink
    ops,                            \* per request, what the middleware did, in order
    raised                          \* per request, the sink operations that raised

vars == <<tracing, pc, req, route, handler, result, span,
          active_connections, http_requests_total, http_request_duration_seconds,
          http_errors_total, application_errors_total, log, ops, raised>>

metrics == <<http_requests_total, http_request_duration_seconds,
             http_errors_total, application_errors_total>>

NoRequest == [method |-> "", path |-> <<>>]
NoHandler == [kind |-> "none", status |-> 0, exception |-> NoException]
NoResult == [kind |-> "none", status |-> 0, exception |-> NoException]
NoSpan == [state |-> "none", trace_id |-> 0, span_id |-> 0, valid |-> FALSE,
           status |-> "unset", description |-> "", exceptions |-> <<>>]

Init ==
    /\ tracing \in BOOLEAN
    /\ pc = [r \in Requests |-> "idle"]
    /\ req = [r \in Requests |-> NoRequest]
    /\ route = [r \in Requests |-> <<>>]
    /\ handler = [r \in Requests |-> NoHandler]
    /\ result = [r \in Requests |-> NoResult]
    /\ span = [r \in Requests |-> NoSpan]
    /\ active_connections = 0
    /\ http_requests_total = EmptyBag
    /\ http_request_duration_seconds = EmptyBag
    /\ http_errors_total = EmptyBag
    /\ application_errors_total = EmptyBag
    /\ log = EmptyBag
    /\ ops = [r \in Requests |-> <<>>]
    /\ raised = [r \in Requests |-> <<>>]

\* ---------------------------------------------------------------- helpers
\* mutant: the gauge is set, not incremented
GaugeSetOne(g) == 1

\* Gauge.inc() / Gauge.dec()
GaugeInc(g) == g + 1
GaugeDec(g) == g - 1

\* format(span_context.trace_id, "032x") if span_context.is_valid else None
FormatId(valid, id) == IF valid THEN <<id>> ELSE None

\* StructuredLogger.info / .error: trace context of the current span, then the
\* caller's keyword arguments, which override it
LogRecord(level, msg, current, kwargs) ==
    [message |-> msg, level |-> level,
     trace_id |-> IF "trace_id" \in DOMAIN kwargs THEN kwargs.trace_id
                  ELSE FormatId(current.valid, current.trace_id),
     span_id |-> IF "span_id" \in DOMAIN kwargs THEN kwargs.span_id
                 ELSE FormatId(current.valid, current.span_id),
     fields |-> kwargs]

\* one thing the middleware does: a sink operation with its labels or record,
\* or a gauge or span operation
Op(name, arg) == [op |-> name, arg |-> arg]

\* the sink `name` after the operations of `seq` addressed to it: a counter or
\* histogram series is created on first use, a log record is appended
Apply(sink, name, seq) ==
    LET idx == {i \in DOMAIN seq : seq[i].op = name}
        args == {seq[i].arg : i \in idx}
    IN  IF idx = {} THEN sink
        ELSE sink (+) [x \in args |-> Cardinality({i \in idx : seq[i].arg = x})]

\* mutant: every response counts as an HTTP error
IsHttpErrorAlways(status) == status >= 200

\* `if status_code >= 400` (lines 147 and 185)
IsHttpError(status) == status >= 400

\* mutant: the HTTP error counter is labeled with the status code itself
HttpErrorLabelsRawStatus(method, rt, status) == <<method, rt, ToString(status)>>

\* mutant: the application-error counter is labeled with a fixed type name
AppErrorLabelsGeneric(e) == <<"Exception", "middleware">>

\* label sets of the three request metrics and of the application-error counter
TrafficLabels(method, rt, status) == <<method, rt, status>>
LatencyLabels(method, rt) == <<method, rt>>
HttpErrorLabels(method, rt, status) == <<method, rt, get_error_class(status)>>
AppErrorLabels(e) == <<e.type, "middleware">>

\* mutant: the info record is written only for a response that is no error
SuccessOpsEitherLog(m, rt, st, ctx) ==
    (IF st >= 400 THEN <<Op("span_status", [code |-> "error", description |-> ""])>> ELSE <<>>)
    \o <<Op("traffic", <<m, rt, st>>),
         Op("observe", <<m, rt>>)>>
    \o (IF st >= 400
        THEN <<Op("http_error", <<m, rt, get_error_class(st)>>),
               Op("log", LogRecord("ERROR", "http_error", ctx,
                                   [method |-> m, route |-> rt, status_code |-> st,
                                    error_class |-> get_error_class(st),
                                    trace_id |-> FormatId(ctx.valid, ctx.trace_id),
                                    span_id |-> FormatId(ctx.valid, ctx.span_id)]))>>
        ELSE <<Op("log", LogRecord("INFO", "request_processed", ctx,
                                   [method |-> m, route |-> rt, status_code |-> st,
                                    trace_id |-> FormatId(ctx.valid, ctx.trace_id),
                                    span_id |-> FormatId(ctx.valid, ctx.span_id)]))>>)

\* lines 143-202: what the success path does, in program order
SuccessOps(m, rt, st, ctx) ==
    (IF IsHttpError(st) THEN <<Op("span_status", [code |-> "error", description |-> ""])>> ELSE <<>>)
    \o <<Op("traffic", TrafficLabels(m, rt, st)),
         Op("observe", LatencyLabels(m, rt)),
         Op("log", LogRecord("INFO", "request_processed", ctx,
                             [method |-> m, route |-> rt, status_code |-> st,
                              trace_id |-> FormatId(ctx.valid, ctx.trace_id),
                              span_id |-> FormatId(ctx.valid, ctx.span_id)]))>>
    \o (IF IsHttpError(st)
        THEN <<Op("http_error", HttpErrorLabels(m, rt, st)),
               Op("log", LogRecord("ERROR", "http_error", ctx,
                                   [method |-> m, route |-> rt, status_code |-> st,
                                    error_class |-> get_error_class(st),
                                    trace_id |-> FormatId(ctx.valid, ctx.trace_id),
                                    span_id |-> FormatId(ctx.valid, ctx.span_id)]))>>
        ELSE <<>>)

\* mutant: the except clause decrements the gauge as well as the finally clause
FailureOpsDecrementing(m, rt, e, ctx) ==
    <<Op("span_status", [code |-> "error", description |-> e.msg]),
      Op("record_exception", e),
      Op("app_error", <<e.type, "middleware">>),
      Op("log", LogRecord("ERROR", "request_failed", ctx,
                          [method |-> m, route |-> rt,
                           error |-> e.msg, error_type |-> e.type,
                           trace_id |-> FormatId(ctx.valid, ctx.trace_id),
                           span_id |-> FormatId(ctx.valid, ctx.span_id)])),
      Op("gauge_dec", <<>>)>>

\* mutant: the error status is set without the exception's message
FailureOpsNoDescription(m, rt, e, ctx) ==
    <<Op("span_status", [code |-> "error", description |-> ""]),
      Op("record_exception", e),
      Op("app_error", <<e.type, "middleware">>),
      Op("log", LogRecord("ERROR", "request_failed", ctx,
                          [method |-> m, route |-> rt,
                           error |-> e.msg, error_type |-> e.type,
                           trace_id |-> FormatId(ctx.valid, ctx.trace_id),
                           span_id |-> FormatId(ctx.valid, ctx.span_id)]))>>

\* mutant: a request whose handler raised is counted as traffic and observed
FailureOpsCountingTraffic(m, rt, e, ctx) ==
    <<Op("span_status", [code |-> "error", description |-> e.msg]),
      Op("record_exception", e),
      Op("traffic", <<m, rt, 500>>),
      Op("observe", <<m, rt>>),
      Op("app_error", <<e.type, "middleware">>),
      Op("log", LogRecord("ERROR", "request_failed", ctx,
                          [method |-> m, route |-> rt,
                           error |-> e.msg, error_type |-> e.type,
                           trace_id |-> FormatId(ctx.valid, ctx.trace_id),
                           span_id |-> FormatId(ctx.valid, ctx.span_id)]))>>

\* lines 207-230: what the exception path does with the caught exception e
FailureOps(m, rt, e, ctx) ==
    <<Op("span_status", [code |-> "error", description |-> e.msg]),
      Op("record_exception", e),
      Op("app_error", AppErrorLabels(e)),
      Op("log", LogRecord("ERROR", "request_failed", ctx,
                          [method |-> m, route |-> rt,
                           error |-> e.msg, error_type |-> e.type,
                           trace_id |-> FormatId(ctx.valid, ctx.trace_id),
                           span_id |-> FormatId(ctx.valid, ctx.span_id)]))>>

\* the operations that may raise: metrics and log emissions
CanRaise(o) == o.op \in {"traffic", "observe", "http_error", "app_error", "log"}

\* mutant: the exception is wrapped in a new one
RaiseWrapped(e) == [type |-> "RuntimeError", msg |-> e.msg]

\* `raise e` (line 233)
Reraise(e) == e

\* lines 139-204, the try block once call_next returned status st: the first n
\* operations complete; if there is a next one, it raises
TryBlock(m, rt, st, ctx, n) ==
    LET all == SuccessOps(m, rt, st, ctx)
    IN  [done |-> SubSeq(all, 1, n),
         exc |-> IF n = Len(all) THEN NoException ELSE SinkError,
         raised |-> IF n = Len(all) THEN <<>> ELSE <<all[n + 1].op>>,
         possible |-> n = Len(all) \/ CanRaise(all[n + 1])]

\* lines 206-233, the except clause with the caught exception e: the first k
\* operations complete; if there is a next one, it raises and replaces e,
\* otherwise e is raised again
ExceptBlock(m, rt, e, ctx, k) ==
    LET all == FailureOps(m, rt, e, ctx)
    IN  [done |-> SubSeq(all, 1, k),
         exc |-> IF k = Len(all) THEN Reraise(e) ELSE SinkError,
         raised |-> IF k = Len(all) THEN <<>> ELSE <<all[k + 1].op>>,
         possible |-> k = Len(all) \/ CanRaise(all[k + 1])]

\* mutant: no finally clause, the gauge is not decremented
FinallyOpsMissing == <<>>

\* lines 235-237: the finally clause
FinallyOps == <<Op("gauge_dec", <<>>)>>

\* mutant: the span is never ended
ExitOpsMissing == <<>>

\* line 128: leaving the with statement ends the span
ExitOps == <<Op("span_close", <<>>)>>

\* mutant: the decrement is not in a finally clause and is skipped
LeaveWithoutFinally(body) == body \o ExitOps

\* mutant: the span is ended before the finally clause runs
LeaveClosingFirst(body) == body \o ExitOps \o FinallyOps

\* lines 128-237: the try statement is inside the with statement, so what the
\* try and except clauses did is followed by the finally clause and then by
\* the end of the span
Leave(body) == body \o FinallyOps \o ExitOps

\* the span after one operation: start_as_current_span (line 128), set_status
\* (lines 148, 208), record_exception (line 209), end of the with statement
SpanStep(sp, o) ==
    IF o.op = "span_open"
    THEN [state |-> "open", trace_id |-> o.arg.trace_id, span_id |-> o.arg.span_id,
          valid |-> o.arg.valid, status |-> "unset", description |-> "",
          exceptions |-> <<>>]
    ELSE IF o.op = "span_status"
    THEN [sp EXCEPT !.status = o.arg.code, !.description = o.arg.description]
    ELSE IF o.op = "record_exception" THEN [sp EXCEPT !.exceptions = Append(@, o.arg.type)]
    ELSE IF o.op = "span_close" THEN [sp EXCEPT !.state = "closed"]
    ELSE sp

\* the span after the operations of `seq`
SpanAfter(sp, seq) ==
    LET f[i \in 0..Len(seq)] == IF i = 0 THEN sp ELSE SpanStep(f[i - 1], seq[i])
    IN  f[Len(seq)]

\* the gauge after one operation
GaugeStep(g, o) ==
    IF o.op = "gauge_inc" THEN GaugeInc(g)
    ELSE IF o.op = "gauge_dec" THEN GaugeDec(g)
    ELSE g

\* the gauge after the operations of `seq`
GaugeAfter(g, seq) ==
    LET f[i \in 0..Len(seq)] == IF i = 0 THEN g ELSE GaugeStep(f[i - 1], seq[i])
    IN  f[Len(seq)]

\* the state after request r did `done`
Perform(r, done) ==
    /\ active_connections' = GaugeAfter(active_connections, done)
    /\ span' = [span EXCEPT ![r] = SpanAfter(@, done)]
    /\ http_requests_total' = Apply(http_requests_total, "traffic", done)
    /\ http_request_duration_seconds' = Apply(http_request_duration_seconds, "observe", done)
    /\ http_errors_total' = Apply(http_errors_total, "http_error", done)
    /\ application_errors_total' = Apply(application_errors_total, "app_error", done)
    /\ log' = Apply(log, "log", done)
    /\ ops' = [ops EXCEPT ![r] = @ \o done]

\* sink operations that raised so far, over all requests
Faults ==
    LET f[i \in 0..NumRequests] == IF i = 0 THEN 0 ELSE f[i - 1] + Len(raised[i])
    IN  f[NumRequests]

\* what the caller receives: the response (line 204) or the exception in flight
Outcome(st, e) ==
    IF e = NoException
    THEN [kind |-> "response", status |-> st, exception |-> NoException]
    ELSE [kind |-> "exception", status |-> 0, exception |-> e]

\* ---------------------------------------------------------------- actions
\* the span context the tracer gives the span of request r: fresh non-zero
\* ids from a recording tracer, the invalid context otherwise
SpanContext(r, recording) ==
    [trace_id |-> IF recording THEN r ELSE 0,
     span_id |-> IF recording THEN NumRequests + r ELSE 0,
     valid |-> recording]

\* mutant: the span read is one process-wide slot, the latest still open
CurrentSpanShared(r) ==
    LET open == {q \in Requests : span[q].state = "open"}
    IN  IF open = {} THEN span[r]
        ELSE span[CHOOSE q \in open : \A p \in open : p <= q]

\* the local `span` the with statement binds (line 137), whose context lines
\* 168-170 and 218-220 read for the log records
CurrentSpan(r) == span[r]

\* mutant: the handler is called before the span is opened
EnterOpsHandlerFirst(r, recording) ==
    <<Op("gauge_inc", <<>>), Op("call_next", <<>>),
      Op("span_open", SpanContext(r, recording))>>

\* lines 123-140: what the middleware does before it awaits the handler
EnterOps(r, recording) ==
    <<Op("gauge_inc", <<>>), Op("span_open", SpanContext(r, recording)),
      Op("call_next", <<>>)>>

\* the operations of `seq` before its first operation `name`
Before(seq, name) ==
    LET at == {i \in DOMAIN seq : seq[i].op = name}
    IN  SubSeq(seq, 1, (CHOOSE i \in at : \A j \in at : i <= j) - 1)

\* lines 118-140: read the request, normalize the route, increment the gauge,
\* open the span and await the handler
Enter(r) ==
    /\ pc[r] = "idle"
    /\ \E request \in Inbound:
         /\ req' = [req EXCEPT ![r] = request]
         /\ route' = [route EXCEPT ![r] = RouteOf(request)]
    /\ \E done \in {EnterOps(r, tracing)}: Perform(r, done)
    /\ pc' = [pc EXCEPT ![r] = "handler"]
    /\ UNCHANGED <<tracing, handler, result, raised>>

\* lines 118-137 when the tracer raises: what precedes the call was done (the
\* gauge increment, line 124) and the try statement (line 139) is not entered,
\* so neither the except nor the finally clause runs
EnterFails(r) ==
    /\ pc[r] = "idle"
    /\ Faults < MaxFaults
    /\ raised' = [raised EXCEPT ![r] = <<"span_open">>]
    /\ \E request \in Inbound:
         /\ req' = [req EXCEPT ![r] = request]
         /\ route' = [route EXCEPT ![r] = RouteOf(request)]
    /\ \E done \in {Before(EnterOps(r, tracing), "span_open")}: Perform(r, done)
    /\ result' = [result EXCEPT ![r] = Outcome(0, SinkError)]
    /\ pc' = [pc EXCEPT ![r] = "done"]
    /\ UNCHANGED <<tracing, handler>>

\* lines 140-204, 235-237: call_next returns a response and every operation of
\* the success path completes
HandlerReturns(r) ==
    /\ pc[r] = "handler"
    /\ \E st \in Statuses:
         \E try \in {TryBlock(req[r].method, route[r], st, CurrentSpan(r),
                              Len(SuccessOps(req[r].method, route[r], st, CurrentSpan(r))))}:
           /\ handler' = [handler EXCEPT ![r] =
                            [kind |-> "returned", status |-> st, exception |-> NoException]]
           /\ \E done \in {Leave(try.done)}: Perform(r, done)
           /\ result' = [result EXCEPT ![r] = Outcome(st, try.exc)]
    /\ pc' = [pc EXCEPT ![r] = "done"]
    /\ UNCHANGED <<tracing, req, route, raised>>

\* lines 140-237: call_next returns a response, operation n + 1 of the success
\* path raises, `except Exception` (line 206) catches what it raised
HandlerReturnsSinkFails(r) ==
    /\ pc[r] = "handler"
    /\ \E st \in Statuses:
         \E n \in 0..(Len(SuccessOps(req[r].method, route[r], st, CurrentSpan(r))) - 1):
           \E try \in {TryBlock(req[r].method, route[r], st, CurrentSpan(r), n)}:
             \E k \in 0..Len(FailureOps(req[r].method, route[r], try.exc, CurrentSpan(r))):
               \E except \in {ExceptBlock(req[r].method, route[r], try.exc, CurrentSpan(r), k)}:
                 /\ try.possible /\ except.possible
                 /\ Faults + Len(try.raised \o except.raised) <= MaxFaults
                 /\ raised' = [raised EXCEPT ![r] = try.raised \o except.raised]
                 /\ handler' = [handler EXCEPT ![r] =
                                  [kind |-> "returned", status |-> st,
                                   exception |-> NoException]]
                 /\ \E done \in {Leave(try.done \o except.done)}:
                      Perform(r, done)
                 /\ result' = [result EXCEPT ![r] = Outcome(st, except.exc)]
    /\ pc' = [pc EXCEPT ![r] = "done"]
    /\ UNCHANGED <<tracing, req, route>>

\* lines 140, 206-237: call_next raises an Exception
HandlerRaises(r) ==
    /\ pc[r] = "handler"
    /\ \E e \in HandlerExceptions:
         \E k \in 0..Len(FailureOps(req[r].method, route[r], e, CurrentSpan(r))):
           \E except \in {ExceptBlock(req[r].method, route[r], e, CurrentSpan(r), k)}:
             /\ except.possible
             /\ Faults + Len(except.raised) <= MaxFaults
             /\ raised' = [raised EXCEPT ![r] = except.raised]
             /\ handler' = [handler EXCEPT ![r] =
                              [kind |-> "raised", status |-> 0, exception |-> e]]
             /\ \E done \in {Leave(except.done)}: Perform(r, done)
             /\ result' = [result EXCEPT ![r] = Outcome(0, except.exc)]
    /\ pc' = [pc EXCEPT ![r] = "done"]
    /\ UNCHANGED <<tracing, req, route>>

\* lines 140, 235-237: the task is cancelled while awaiting call_next;
\* CancelledError is no Exception, so `except Exception` (line 206) does not
\* catch it and only the finally clause runs
Cancelled(r) ==
    /\ pc[r] = "handler"
    /\ handler' = [handler EXCEPT ![r] =
                     [kind |-> "cancelled", status |-> 0, exception |-> CancelledError]]
    /\ \E done \in {Leave(<<>>)}: Perform(r, done)
    /\ result' = [result EXCEPT ![r] = Outcome(0, CancelledError)]
    /\ pc' = [pc EXCEPT ![r] = "done"]
    /\ UNCHANGED <<tracing, req, route, raised>>

Next ==
    \E r \in Requests:
        \/ Enter(r)
        \/ EnterFails(r)
        \/ HandlerReturns(r)
        \/ HandlerReturnsSinkFails(r)
        \/ HandlerRaises(r)
        \/ Cancelled(r)

Spec == Init /\ [][Next]_vars

\* the handler awaited at line 140 answers: it returns or raises
Answers(r) == HandlerReturns(r) \/ HandlerReturnsSinkFails(r) \/ HandlerRaises(r)

\* ------------------------------------------------------------- properties
Done(r) == pc[r] = "done"

\* the positions in what request r did of the operation `name`
OpsOf(r, name) == {i \in DOMAIN ops[r] : ops[r][i].op = name}
Count(r, name) == Cardinality(OpsOf(r, name))

\* the handler of r was called and returned or raised
Answered(r) == handler[r].kind \in {"returned", "raised"}

\* C1: a request whose handler returned (any status) or raised has, once
\* complete, incremented the gauge exactly once and decremented it exactly
\* once, also when a sink operation raised in between; and when every request
\* that entered has so completed, the gauge is back at its initial value.
C1_GaugeBalanced ==
    /\ \A r \in Requests:
         Done(r) /\ Answered(r) => Count(r, "gauge_inc") = 1 /\ Count(r, "gauge_dec") = 1
    /\ (\A r \in Requests: pc[r] = "idle" \/ (Done(r) /\ Answered(r)))
         => active_connections = 0

\* two requests complete, one whose handler raised and one answered with an
\* error status, and the gauge is back at zero
C1_Witness ==
    \E r1, r2 \in Requests:
        /\ Done(r1) /\ handler[r1].kind = "raised"
        /\ Done(r2) /\ handler[r2].kind = "returned" /\ handler[r2].status >= 400
        /\ active_connections = 0

\* the requests that incremented the gauge and have not decremented it
InFlight == {r \in Requests : Count(r, "gauge_inc") = 1 /\ Count(r, "gauge_dec") = 0}

\* C2: in every reachable state, under every interleaving of the requests, the
\* gauge is the number of requests that incremented it and have not yet
\* decremented it, and no request increments or decrements it twice.
C2_GaugeCountsInFlight ==
    /\ active_connections = Cardinality(InFlight)
    /\ \A r \in Requests:
         /\ Count(r, "gauge_inc") <= 1
         /\ Count(r, "gauge_dec") <= Count(r, "gauge_inc")

\* two requests overlap: both await their handler and the gauge shows 2
C2_Witness ==
    \E r1, r2 \in Requests:
        /\ r1 # r2
        /\ pc[r1] = "handler" /\ pc[r2] = "handler"
        /\ active_connections = 2

\* C3: the gauge is never negative, whatever the handlers do (return, raise,
\* cancellation).
C3_GaugeNonNegative == active_connections >= 0

\* a cancelled request and one whose handler raised are both complete, and the
\* gauge has come down to zero
C3_Witness ==
    \E r1, r2 \in Requests:
        /\ Done(r1) /\ handler[r1].kind = "cancelled"
        /\ Done(r2) /\ handler[r2].kind = "raised"
        /\ active_connections = 0

\* no metrics or log call raised while the middleware processed r
Clean(r) == raised[r] = <<>>

\* how often r did the operation `name` with exactly this argument
CountArg(r, name, arg) == Cardinality({i \in OpsOf(r, name) : ops[r][i].arg = arg})

\* the positions of the log records r wrote at `level`
LogsOf(r, level) == {i \in OpsOf(r, "log") : ops[r][i].arg.level = level}

Returned(r) == Done(r) /\ handler[r].kind = "returned"
Raised(r) == Done(r) /\ handler[r].kind = "raised"

\* C4: when the handler raised, the caller of the middleware receives an
\* exception, never a response, and (no metrics or log call having raised while
\* it was recorded) it is the handler's exception, same type and message.
C4_ExceptionPropagates ==
    \A r \in Requests:
        Raised(r) =>
            /\ result[r].kind = "exception"
            /\ Clean(r) => result[r].exception = handler[r].exception

\* the handler raised ValueError("boom") and the caller received it
C4_Witness ==
    \E r \in Requests:
        /\ Raised(r) /\ Clean(r)
        /\ handler[r].exception = [type |-> "ValueError", msg |-> "boom"]
        /\ result[r] = [kind |-> "exception", status |-> 0,
                        exception |-> [type |-> "ValueError", msg |-> "boom"]]

\* C5: when the handler raised (and the sinks accept what is recorded), the
\* request incremented the application-error counter exactly once, on the
\* series (the exception's type name, "middleware"), and wrote exactly one
\* error-level record, which carries the exception's type and message.
C5_ExceptionRecorded ==
    \A r \in Requests:
        Raised(r) /\ Clean(r) =>
            /\ Count(r, "app_error") = 1
            /\ CountArg(r, "app_error", <<handler[r].exception.type, "middleware">>) = 1
            /\ CopiesIn(<<handler[r].exception.type, "middleware">>,
                        application_errors_total) >= 1
            /\ Cardinality(LogsOf(r, "ERROR")) = 1
            /\ \A i \in LogsOf(r, "ERROR"):
                 /\ ops[r][i].arg.fields.error_type = handler[r].exception.type
                 /\ ops[r][i].arg.fields.error = handler[r].exception.msg
                 /\ BagIn(ops[r][i].arg, log)

\* the handler raised KeyError and the series (KeyError, middleware) counts it
C5_Witness ==
    \E r \in Requests:
        /\ Raised(r) /\ Clean(r)
        /\ handler[r].exception.type = "KeyError"
        /\ CopiesIn(<<"KeyError", "middleware">>, application_errors_total) = 1

\* C6: when the handler returned a status below 400 (and the sinks accept what
\* is recorded), the request incremented the traffic counter exactly once, on
\* (method, route, status_code), observed the duration histogram exactly once,
\* on (method, route), and incremented neither error counter.
C6_SuccessMetrics ==
    \A r \in Requests:
        Returned(r) /\ handler[r].status < 400 /\ Clean(r) =>
            /\ Count(r, "traffic") = 1
            /\ CountArg(r, "traffic", <<req[r].method, route[r], handler[r].status>>) = 1
            /\ CopiesIn(<<req[r].method, route[r], handler[r].status>>,
                        http_requests_total) >= 1
            /\ Count(r, "observe") = 1
            /\ CountArg(r, "observe", <<req[r].method, route[r]>>) = 1
            /\ CopiesIn(<<req[r].method, route[r]>>, http_request_duration_seconds) >= 1
            /\ Count(r, "http_error") = 0
            /\ Count(r, "app_error") = 0

\* a GET answered 200: one traffic increment, one observation, no error series
C6_Witness ==
    \E r \in Requests:
        /\ Returned(r) /\ handler[r].status = 200 /\ Clean(r)
        /\ req[r].method = "GET"
        /\ CopiesIn(<<"GET", route[r], 200>>, http_requests_total) = 1
        /\ http_errors_total = EmptyBag
        /\ application_errors_total = EmptyBag

\* C7: when the handler returned a status of 400 or more (and the sinks accept
\* what is recorded), the request incremented the traffic counter exactly once
\* and the HTTP error counter exactly once, on the series labeled with
\* get_error_class(status_code), wrote exactly one error-level record, whose
\* trace_id is the span's and not null when the span is valid, and the caller
\* received the response, no exception.
C7_HttpErrorRecorded ==
    \A r \in Requests:
        Returned(r) /\ handler[r].status >= 400 /\ Clean(r) =>
            /\ Count(r, "traffic") = 1
            /\ CountArg(r, "traffic", <<req[r].method, route[r], handler[r].status>>) = 1
            /\ Count(r, "http_error") = 1
            /\ CountArg(r, "http_error",
                        <<req[r].method, route[r], get_error_class(handler[r].status)>>) = 1
            /\ CopiesIn(<<req[r].method, route[r], get_error_class(handler[r].status)>>,
                        http_errors_total) >= 1
            /\ Cardinality(LogsOf(r, "ERROR")) = 1
            /\ \A i \in LogsOf(r, "ERROR"):
                 /\ span[r].valid => ops[r][i].arg.trace_id = <<span[r].trace_id>>
                 /\ span[r].valid => ops[r][i].arg.trace_id # None
                 /\ BagIn(ops[r][i].arg, log)
            /\ result[r] = [kind |-> "response", status |-> handler[r].status,
                            exception |-> NoException]

\* a request answered 404 under a valid span: the 4xx series counts it and the
\* caller has the 404 response
C7_Witness ==
    \E r \in Requests:
        /\ Returned(r) /\ handler[r].status = 404 /\ Clean(r)
        /\ span[r].valid
        /\ CopiesIn(<<req[r].method, route[r], "4xx">>, http_errors_total) = 1
        /\ result[r].kind = "response" /\ result[r].status = 404

\* C8 as the spec states it: the level is chosen by the status, an error-level
\* record for a status of 400 or more and an info-level record only otherwise.
C8_LevelChosenByStatus ==
    \A r \in Requests:
        Returned(r) /\ Clean(r) =>
            /\ handler[r].status >= 400 =>
                 Cardinality(LogsOf(r, "ERROR")) = 1 /\ LogsOf(r, "INFO") = {}
            /\ handler[r].status < 400 =>
                 Cardinality(LogsOf(r, "INFO")) = 1 /\ LogsOf(r, "ERROR") = {}

\* C8: on the success path (the sinks accepting what is recorded) exactly one
\* info-level record, request_processed, is written for every response,
\* whatever its status; for a status of 400 or more exactly one error-level
\* record, http_error, is written after it, and for a status below 400 none.
C8_InfoAlwaysErrorAdded ==
    \A r \in Requests:
        Returned(r) /\ Clean(r) =>
            /\ Cardinality(LogsOf(r, "INFO")) = 1
            /\ \A i \in LogsOf(r, "INFO"): ops[r][i].arg.message = "request_processed"
            /\ handler[r].status >= 400 =>
                 /\ Cardinality(LogsOf(r, "ERROR")) = 1
                 /\ \A i \in LogsOf(r, "ERROR"):
                      /\ ops[r][i].arg.message = "http_error"
                      /\ \A j \in LogsOf(r, "INFO"): j < i
            /\ handler[r].status < 400 => LogsOf(r, "ERROR") = {}

\* a request answered 500 wrote an info-level and an error-level record
C8_Witness ==
    \E r \in Requests:
        /\ Returned(r) /\ handler[r].status = 500 /\ Clean(r)
        /\ LogsOf(r, "INFO") # {}
        /\ LogsOf(r, "ERROR") # {}

\* C9 as the spec states it: when a metrics or log call raises after the
\* handler returned a response, the caller still receives that response and no
\* application error is recorded for the request.
C9_SinkFailureAbsorbed ==
    \A r \in Requests:
        Returned(r) /\ ~Clean(r) =>
            /\ result[r] = [kind |-> "response", status |-> handler[r].status,
                            exception |-> NoException]
            /\ Count(r, "app_error") = 0

\* C10 as the spec states it: when a metrics or log call raises while the
\* handler's exception is recorded, the caller still receives the handler's
\* exception, and the gauge is decremented.
C10_HandlerExceptionSurvives ==
    \A r \in Requests:
        Raised(r) /\ ~Clean(r) =>
            /\ result[r] = [kind |-> "exception", status |-> 0,
                            exception |-> handler[r].exception]
            /\ Count(r, "gauge_dec") = 1

WasCancelled(r) == handler[r].kind = "cancelled"

\* C11: a request cancelled while the middleware awaits the handler is Closed
\* at once: the gauge is decremented exactly once, the span is ended exactly
\* once, and the request no longer counts in the gauge.
C11_CancelledReachesClosed ==
    \A r \in Requests:
        WasCancelled(r) =>
            /\ Done(r)
            /\ Count(r, "gauge_inc") = 1 /\ Count(r, "gauge_dec") = 1
            /\ Count(r, "span_close") = 1 /\ span[r].state = "closed"
            /\ r \notin InFlight

\* a request was cancelled while another still awaits its handler: the gauge
\* shows the other one only and the cancelled request's span is closed
C11_Witness ==
    \E r1, r2 \in Requests:
        /\ WasCancelled(r1) /\ span[r1].state = "closed"
        /\ pc[r2] = "handler"
        /\ active_connections = 1

\* C12 as the spec states it: a cancelled request is recorded as a failed one,
\* with the span status set to error, one application-error increment and one
\* error-level record.
C12_CancellationRecorded ==
    \A r \in Requests:
        WasCancelled(r) /\ Done(r) =>
            /\ span[r].status = "error"
            /\ Count(r, "app_error") = 1
            /\ Cardinality(LogsOf(r, "ERROR")) = 1

\* r is in the terminal state Closed with the gauge decremented once
Closed(r) ==
    /\ Done(r)
    /\ span[r].state = "closed" /\ Count(r, "span_close") = 1
    /\ Count(r, "gauge_dec") = 1

\* C13: a request that awaits its handler is never stuck (the middleware can
\* take every answer of the handler) and the step that ends the wait, whether
\* the handler returns, raises or the request is cancelled, takes it to Closed
\* with the span ended once and the gauge decremented once, so no path skips
\* the decrement; Closed is terminal, so it is reached once: a complete
\* request does nothing more.
C13_ReachesClosedOnce ==
    /\ [](\A r \in Requests:
            /\ pc[r] = "handler" => ENABLED Answers(r)
            /\ Done(r) /\ handler[r].kind # "none" => Closed(r))
    /\ [][\A r \in Requests:
            /\ pc[r] = "handler" /\ pc'[r] # "handler" => Closed(r)'
            /\ Done(r) => pc'[r] = "done" /\ ops'[r] = ops[r]]_vars

\* a request reached Closed on the longest path: the handler returned, a
\* metrics or log call raised and the except clause ran
C13_Witness ==
    \E r \in Requests:
        /\ Returned(r) /\ ~Clean(r) /\ Closed(r)
        /\ Count(r, "app_error") = 1

\* the operations that record the outcome of a request: counters, histogram,
\* log records
Recording == {"traffic", "observe", "http_error", "app_error", "log"}

\* C14: within one request the span is opened before the handler is called,
\* the span is open (and is the request's own) all the time the handler runs,
\* it is ended only after the handler answered, and every counter increment,
\* histogram observation and log record of the request, and the gauge
\* decrement, comes after the span was opened and before it is ended.
C14_SpanBracketsHandler ==
    \A r \in Requests:
        /\ \A i \in OpsOf(r, "call_next"): \E j \in OpsOf(r, "span_open"): j < i
        /\ pc[r] = "handler" =>
             /\ span[r].state = "open" /\ CurrentSpan(r) = span[r]
             /\ Count(r, "call_next") = 1 /\ Count(r, "span_close") = 0
        /\ \A k \in OpsOf(r, "span_close"):
             /\ handler[r].kind # "none"
             /\ \E i \in OpsOf(r, "call_next"): i < k
        /\ \A i \in DOMAIN ops[r]:
             ops[r][i].op \in Recording \cup {"gauge_dec"} =>
                 /\ \E j \in OpsOf(r, "span_open"): j < i
                 /\ \E j \in OpsOf(r, "call_next"): j < i
                 /\ \A k \in OpsOf(r, "span_close"): i < k

\* a request answered 500 recorded two counters, an observation and two log
\* records, and then its span was ended
C14_Witness ==
    \E r \in Requests:
        /\ Returned(r) /\ handler[r].status = 500 /\ Clean(r)
        /\ Count(r, "traffic") = 1 /\ Count(r, "observe") = 1
        /\ Count(r, "http_error") = 1 /\ Count(r, "log") = 2
        /\ span[r].state = "closed"

\* C15: under every interleaving, each log record a request wrote carries the
\* trace_id and span_id of that request's own span, formatted from its
\* context, and of no other request's span; two requests with valid spans have
\* different trace ids and different span ids; a record written when the
\* request's span is not valid carries null for both.
C15_LogCarriesOwnSpan ==
    /\ \A r \in Requests: \A i \in OpsOf(r, "log"):
         /\ ops[r][i].arg.trace_id = FormatId(span[r].valid, span[r].trace_id)
         /\ ops[r][i].arg.span_id = FormatId(span[r].valid, span[r].span_id)
         /\ BagIn(ops[r][i].arg, log)
         /\ ~span[r].valid =>
              ops[r][i].arg.trace_id = None /\ ops[r][i].arg.span_id = None
         /\ \A q \in Requests \ {r}:
              span[q].valid =>
                  /\ ops[r][i].arg.trace_id # <<span[q].trace_id>>
                  /\ ops[r][i].arg.span_id # <<span[q].span_id>>
    /\ \A a, b \in Requests:
         a # b /\ span[a].valid /\ span[b].valid =>
             span[a].trace_id # span[b].trace_id /\ span[a].span_id # span[b].span_id

\* request a wrote its record under its own ids and is complete, while the
\* span of request b is open
C15_Witness ==
    \E a, b \in Requests:
        /\ a < b
        /\ Returned(a) /\ Clean(a) /\ span[a].valid
        /\ pc[b] = "handler" /\ span[b].state = "open" /\ span[b].valid
        /\ \E i \in OpsOf(a, "log"): ops[a][i].arg.trace_id = <<span[a].trace_id>>

\* C16: once the span of a request whose handler answered is ended (no
\* metrics or log call having raised), its status is error exactly when the
\* handler returned a status of 400 or more or raised; when it raised, the
\* status message is the exception's message and the exception is recorded on
\* the span; for a status below 400 the middleware never set the status and it
\* is unset.
C16_SpanStatusByOutcome ==
    \A r \in Requests:
        Done(r) /\ Answered(r) /\ Clean(r) /\ span[r].state = "closed" =>
            /\ span[r].status = "error"
                 <=> (handler[r].kind = "raised"
                      \/ (handler[r].kind = "returned" /\ handler[r].status >= 400))
            /\ handler[r].kind = "raised" =>
                 /\ span[r].description = handler[r].exception.msg
                 /\ span[r].exceptions = <<handler[r].exception.type>>
            /\ handler[r].kind = "returned" /\ handler[r].status < 400 =>
                 /\ span[r].status = "unset"
                 /\ Count(r, "span_status") = 0

\* one span ended with status error and the message "boom" of the ValueError
\* the handler raised, another ended unset after a 200
C16_Witness ==
    \E r1, r2 \in Requests:
        /\ Raised(r1) /\ Clean(r1) /\ span[r1].state = "closed"
        /\ span[r1].status = "error" /\ span[r1].description = "boom"
        /\ Returned(r2) /\ Clean(r2) /\ handler[r2].status = 200
        /\ span[r2].state = "closed" /\ span[r2].status = "unset"

\* C17 as the spec states it: on every path out of the handler the span is
\* ended before the gauge is decremented.
C17_SpanClosedBeforeDecrement ==
    \A r \in Requests:
        Done(r) /\ handler[r].kind # "none" =>
            \E k \in OpsOf(r, "span_close"): \E i \in OpsOf(r, "gauge_dec"): k < i

\* C17: on every path out of the handler (return, raise, cancellation, a sink
\* call raising) the gauge is decremented once and the span is ended once, and
\* the decrement comes before the end of the span.
C17_DecrementBeforeSpanClosed ==
    \A r \in Requests:
        Done(r) /\ handler[r].kind # "none" =>
            /\ Count(r, "gauge_dec") = 1 /\ Count(r, "span_close") = 1
            /\ \A i \in OpsOf(r, "gauge_dec"): \A k \in OpsOf(r, "span_close"): i < k

\* a returned, a raised and a cancelled path each end with the decrement
\* followed by the end of the span: here a cancelled request and one answered
\* 404
C17_Witness ==
    \E r1, r2 \in Requests:
        /\ Done(r1) /\ WasCancelled(r1)
        /\ Returned(r2) /\ handler[r2].status = 404
        /\ \A r \in {r1, r2}:
             /\ ops[r][Len(ops[r]) - 1].op = "gauge_dec"
             /\ ops[r][Len(ops[r])].op = "span_close"

\* the tracer raised when request r asked for its span
TracerFailed(r) == raised[r] = <<"span_open">>

\* C18 as the spec states it: the gauge is incremented only once the span is
\* open, so a request whose span the tracer failed to open has not touched the
\* gauge, and the gauge is at its initial value when no request is in flight.
C18_TracerFailureLeavesGauge ==
    /\ \A r \in Requests:
         TracerFailed(r) =>
             /\ \A i \in OpsOf(r, "gauge_inc"): \E j \in OpsOf(r, "span_open"): j < i
             /\ Count(r, "gauge_inc") = Count(r, "gauge_dec")
    /\ (\A r \in Requests: pc[r] \in {"idle", "done"}) => active_connections = 0

\* the labels a route-labeled series can carry, whatever the raw paths
RouteLabels == KnownRoutes \cup {CatchAll}
ErrorClasses == {"4xx", "5xx", "invalid", "unknown"}
Methods == {request.method : request \in Inbound}

\* C19: every traffic, histogram and HTTP error series written for a request
\* is labeled with normalize_route of the request's path, which is one of the
\* known templates or the catch-all and is not the raw path when that is no
\* template; the HTTP error series is labeled with get_error_class of the
\* status, one of the classes; so the series of the three metrics stay within
\* a set that does not grow with the requests.
C19_RouteLabelsNormalized ==
    /\ \A r \in Requests: \A i \in DOMAIN ops[r]:
         ops[r][i].op \in {"traffic", "observe", "http_error"} =>
             /\ ops[r][i].arg[2] = normalize_route(req[r].path)
             /\ ops[r][i].arg[2] \in RouteLabels
             /\ req[r].path \notin RouteLabels => ops[r][i].arg[2] # req[r].path
             /\ ops[r][i].op = "http_error" =>
                  /\ ops[r][i].arg[3] = get_error_class(handler[r].status)
                  /\ ops[r][i].arg[3] \in ErrorClasses
    /\ DOMAIN http_requests_total \subseteq Methods \X RouteLabels \X Statuses
    /\ DOMAIN http_request_duration_seconds \subseteq Methods \X RouteLabels
    /\ DOMAIN http_errors_total \subseteq Methods \X RouteLabels \X ErrorClasses

\* GET /records/1 answered 500 and POST /nope answered 404: the series are
\* those of the template, of the catch-all and of the classes
C19_Witness ==
    /\ CopiesIn(<<"GET", <<"records", "{id}">>, 500>>, http_requests_total) = 1
    /\ CopiesIn(<<"GET", <<"records", "{id}">>, "5xx">>, http_errors_total) = 1
    /\ CopiesIn(<<"POST", CatchAll, "4xx">>, http_errors_total) = 1
    /\ CopiesIn(<<"POST", CatchAll>>, http_request_duration_seconds) = 1

\* C20: a request whose handler raised (or that was cancelled) incremented
\* neither the traffic counter nor the HTTP error counter and observed no
\* duration; so, as long as no metrics or log call raised, the total of the
\* traffic counter over all series is the number of requests whose handler
\* returned a response, and so is the number of histogram observations.
C20_OnlyResponsesCounted ==
    /\ \A r \in Requests:
         handler[r].kind \in {"raised", "cancelled"} =>
             /\ Count(r, "traffic") = 0
             /\ Count(r, "observe") = 0
             /\ Count(r, "http_error") = 0
    /\ (\A r \in Requests: Clean(r)) =>
         /\ BagCardinality(http_requests_total)
              = Cardinality({r \in Requests : Returned(r)})
         /\ BagCardinality(http_request_duration_seconds)
              = Cardinality({r \in Requests : Returned(r)})

\* one handler raised and one returned: the traffic counter and the histogram
\* count one request, the application-error counter the other
C20_Witness ==
    \E r1, r2 \in Requests:
        /\ Raised(r1) /\ Clean(r1)
        /\ Returned(r2) /\ Clean(r2)
        /\ BagCardinality(http_requests_total) = 1
        /\ BagCardinality(http_request_duration_seconds) = 1
        /\ BagCardinality(application_errors_total) = 1

====
